---- MODULE Spec2Model ----
(***************************************************************************)
(* State-machine model of rviz's DisplaysPanel (displays_panel.cpp): the   *)
(* slots onNewDisplay, onDuplicateDisplay, onDeleteDisplay,                *)
(* onSelectionChanged, onRenameDisplay, onSaveGroupDisplay and             *)
(* onLoadGroupDisplay, run by the control (GUI) thread's event loop, the   *)
(* posted-event queue of that thread (queued display signals, deferred     *)
(* deletes) and the display threads that emit signals.                     *)
(***************************************************************************)
EXTENDS Integers, Sequences, FiniteSets, TLC

\* ------------------------------------------------------------------ bounds
\* Number of displays that Add and Load Group create between them.
MaxDisplays == 3
\* Number of displays that Duplicate can create beyond those.
MaxDuplicates == 1
\* Longest selection the user makes by hand in the tree.
MaxSel == 2
\* Most display signals queued to the control thread at one time.
MaxQueue == 1

\* --------------------------------------------------------------- constants
\* The tree's first row is not a display ("Global Options").
StructRow == 0
\* An invalid QModelIndex.
Invalid == -1
Ids == 1..(MaxDisplays + MaxDuplicates)
\* "." CONFIG_EXTENSION
DotConfigExtension == ".rviz"
GroupClassId == "rviz/Group"
ClassIds == {"TypeA", GroupClassId}
NoFile == [Class |-> "", Name |-> "", Topic |-> ""]
\* The paths of the file system: sequences of a stem and its extensions.
Paths == {<<"g", ".rviz">>, <<"g", ".txt", ".rviz">>, <<"old", ".rviz">>}
\* A group saved by an earlier session, in old.rviz.
OldGroup == [Class |-> GroupClassId, Name |-> "Beta", Topic |-> ""]

VARIABLES
    registry,     \* vis_manager_'s root display group: Seq of display ids
    displays,     \* id -> [classId, name, topic, life, connected]
    nextId,       \* next fresh display identity
    selection,    \* property_grid_'s selected rows, in the order it lists them
    enabled,      \* the buttons' enabled flags
    updating,     \* vis_manager_'s update timer is running
    files,        \* file system: path -> saved config, or NoFile
    queue,        \* posted events of the control thread, oldest first
    pc,           \* position of the control thread
    handler,      \* the slot that runs, or ran last
    outcome,      \* the exit path that slot took
    calls,        \* what that slot called, in order: <<op, arg>>
    message,      \* text of the QMessageBox::critical that slot showed, or ""
    locals        \* the running slot's local variables

vars == <<registry, displays, nextId, selection, enabled, updating, files,
          queue, pc, handler, outcome, calls, message, locals>>

world == <<registry, displays, nextId>>
trace == <<handler, outcome, calls, message, locals>>

\* ----------------------------------------------------------------- helpers
Range(s) == {s[k] : k \in DOMAIN s}

NoDup(s) == \A j, k \in DOMAIN s : j # k => s[j] # s[k]

Remove(s, x) == SelectSeq(s, LAMBDA y : y # x)

Count(s, x) == Cardinality({k \in DOMAIN s : s[k] = x})

NoDisplay ==
    [classId |-> "", name |-> "", topic |-> "", life |-> "free",
     connected |-> FALSE]

\* Lines 133-136: the four strings the add dialog fills in, empty at first.
NoChoice ==
    [lookup_name |-> "", display_name |-> "", topic |-> "", datatype |-> ""]

NoLocals ==
    [list |-> <<>>, i |-> 0, new_selected |-> Invalid, display |-> Invalid,
     old_name |-> "", new_name |-> "", result |-> "", choice |-> NoChoice,
     filename |-> <<>>]

\* The rows of the tree model: the structural row, then the displays.
Rows(reg) == <<StructRow>> \o reg

\* PropertyTreeModel::indexOf: the row of an item, 0 when it has none.
indexOf(rows, item) ==
    IF \E k \in DOMAIN rows : rows[k] = item
    THEN CHOOSE k \in DOMAIN rows : rows[k] = item
    ELSE 0

\* QModelIndex::sibling( row, column ): the item of that row, or Invalid.
sibling(rows, row) == IF row \in DOMAIN rows THEN rows[row] ELSE Invalid

\* QItemSelection( first, last ): the items of the rows first..last.
ItemSelection(rows, first, last) ==
    LET rf == indexOf(rows, first)
        rl == indexOf(rows, last)
    IN  IF rf = 0 \/ rl = 0 \/ rl < rf
        THEN <<>>
        ELSE [k \in 1..(rl - rf + 1) |-> rows[rf + k - 1]]

\* property_grid_->getSelectedObjects<Display>(): the selected rows that are
\* displays, in the selection's order.
getSelectedObjects(sel) == SelectSeq(sel, LAMBDA item : item # StructRow)

\* dynamic_cast<DisplayGroup*>( display ) != NULL
IsGroup(ds, d) == ds[d].classId = GroupClassId

\* ------------------------------------------------- onSelectionChanged
\* Mutant of DuplicateEnabled: the number of selected displays is not looked at.
DuplicateEnabled_always(n) == TRUE

DuplicateEnabled(n) == n > 0
RemoveEnabled(n) == n > 0
RenameEnabled(n) == n = 1
\* Mutant of SaveGroupEnabled: the display's class is not looked at.
SaveGroupEnabled_anyClass(n, ds, sel) == n = 1

SaveGroupEnabled(n, ds, sel) == n = 1 /\ IsGroup(ds, getSelectedObjects(sel)[1])

\* The slot: the four flags from the selection; load_group_button_ is left.
onSelectionChanged(en, ds, sel) ==
    LET num_displays_selected == Len(getSelectedObjects(sel))
    IN  [en EXCEPT
            !.duplicate_button_ = DuplicateEnabled(num_displays_selected),
            !.remove_button_ = RemoveEnabled(num_displays_selected),
            !.rename_button_ = RenameEnabled(num_displays_selected),
            !.save_group_button_ = SaveGroupEnabled(num_displays_selected, ds, sel)]

\* The selection model emits selectionHasChanged, which line 119 connects to
\* onSelectionChanged, when the set of selected rows changes.
selectionHasChanged(en, ds, old, new) ==
    IF Range(old) # Range(new) THEN onSelectionChanged(en, ds, new) ELSE en

\* ------------------------------------------------------ the host's calls
\* vis_manager_->createDisplay( class_id, name, true ): a new display, wired
\* up and appended to the root display group.
createDisplay(reg, ds, nid, class_id, name) ==
    [registry |-> Append(reg, nid),
     displays |-> [ds EXCEPT ![nid] =
                      [classId |-> class_id, name |-> name, topic |-> "",
                       life |-> "alive", connected |-> TRUE]],
     nextId |-> nid + 1,
     disp |-> nid]

\* Display::setTopic( topic, datatype )
setTopic(rec, topic) == [rec EXCEPT !.topic = topic]

\* Display::save( config )
save(rec) == [Class |-> rec.classId, Name |-> rec.name, Topic |-> rec.topic]

\* Display::load( config )
load(rec, config) == [rec EXCEPT !.name = config.Name, !.topic = config.Topic]

\* ------------------------------------------------------------------- Init
Init ==
    /\ registry = <<>>
    /\ displays = [d \in Ids |-> NoDisplay]
    /\ nextId = 1
    /\ selection = <<>>
    /\ enabled = [duplicate_button_ |-> FALSE, remove_button_ |-> FALSE,
                  rename_button_ |-> FALSE, load_group_button_ |-> TRUE,
                  save_group_button_ |-> FALSE]
    /\ updating = TRUE
    /\ files = [p \in Paths |-> IF p = <<"old", ".rviz">> THEN OldGroup ELSE NoFile]
    /\ queue = <<>>
    /\ pc = "idle"
    /\ handler = "none"
    /\ outcome = "none"
    /\ calls = <<>>
    /\ message = ""
    /\ locals = NoLocals

\* ----------------------------------------------------------- onNewDisplay
\* What the AddDisplayDialog hands back when accepted.
PlainChoice ==
    [lookup_name |-> "TypeA", display_name |-> "Alpha", topic |-> "", datatype |-> ""]

AddChoices ==
    { PlainChoice,
      [lookup_name |-> "TypeA", display_name |-> "Beta", topic |-> "/t", datatype |-> "T"],
      [lookup_name |-> "TypeA", display_name |-> "Alpha", topic |-> "/t", datatype |-> ""],
      [lookup_name |-> "TypeA", display_name |-> "Alpha", topic |-> "", datatype |-> "T"],
      [lookup_name |-> GroupClassId, display_name |-> "Beta", topic |-> "", datatype |-> ""] }

\* Lines 131-151: the dialog is built, the update loop stopped, exec() blocks.
onNewDisplay_exec ==
    /\ pc = "idle"
    /\ pc' = "add_exec"
    /\ handler' = "add"
    /\ outcome' = "none"
    /\ calls' = << <<"stopUpdate", 0>> >>
    /\ updating' = FALSE
    /\ message' = ""
    /\ locals' = NoLocals
    /\ UNCHANGED <<world, selection, enabled, files, queue>>

\* Mutant of hasTopic: the datatype is not looked at.
hasTopic_topicOnly(topic, datatype) == topic # ""

\* Line 154: !topic.isEmpty() && !datatype.isEmpty()
hasTopic(topic, datatype) == topic # "" /\ datatype # ""

\* Mutant of onNewDisplay_acceptedOf: the new display is also selected.
onNewDisplay_acceptedSelecting(choices) ==
    /\ pc = "add_exec"
    /\ nextId <= MaxDisplays
    /\ \E c \in choices :
        LET made == createDisplay(registry, displays, nextId,
                                  c.lookup_name, c.display_name)
            disp == made.disp
            topic_set == hasTopic(c.topic, c.datatype)
        IN  /\ registry' = made.registry
            /\ nextId' = made.nextId
            /\ displays' =
                 IF topic_set
                 THEN [made.displays EXCEPT ![disp] = setTopic(@, c.topic)]
                 ELSE made.displays
            /\ selection' = <<disp>>
            /\ enabled' = selectionHasChanged(enabled, made.displays, selection,
                                              <<disp>>)
            /\ calls' = calls \o << <<"createDisplay", disp>> >>
                        \o (IF topic_set THEN << <<"setTopic", disp>> >> ELSE <<>>)
                        \o << <<"startUpdate", 0>> >>
            /\ locals' = [locals EXCEPT !.result = "Accepted", !.choice = c]
    /\ updating' = TRUE
    /\ outcome' = "accepted"
    /\ pc' = "done"
    /\ UNCHANGED <<files, queue, handler, message>>

\* Lines 151-161, exec() == QDialog::Accepted, the dialog handing back one
\* of choices.
onNewDisplay_acceptedOf(choices) ==
    /\ pc = "add_exec"
    /\ nextId <= MaxDisplays
    /\ \E c \in choices :
        LET made == createDisplay(registry, displays, nextId,
                                  c.lookup_name, c.display_name)
            disp == made.disp
            topic_set == hasTopic(c.topic, c.datatype)
        IN  /\ registry' = made.registry
            /\ nextId' = made.nextId
            /\ displays' =
                 IF topic_set
                 THEN [made.displays EXCEPT ![disp] = setTopic(@, c.topic)]
                 ELSE made.displays
            /\ calls' = calls \o << <<"createDisplay", disp>> >>
                        \o (IF topic_set THEN << <<"setTopic", disp>> >> ELSE <<>>)
                        \o << <<"startUpdate", 0>> >>
            /\ locals' = [locals EXCEPT !.result = "Accepted", !.choice = c]
    /\ updating' = TRUE
    /\ outcome' = "accepted"
    /\ pc' = "done"
    /\ UNCHANGED <<selection, enabled, files, queue, handler, message>>

onNewDisplay_accepted == onNewDisplay_acceptedOf(AddChoices)

\* Lines 151-161, the dialog was cancelled.
onNewDisplay_rejected ==
    /\ pc = "add_exec"
    /\ calls' = Append(calls, <<"startUpdate", 0>>)
    /\ updating' = TRUE
    /\ outcome' = "cancelled"
    /\ locals' = [locals EXCEPT !.result = "Rejected"]
    /\ pc' = "done"
    /\ UNCHANGED <<world, selection, enabled, files, queue, handler, message>>

\* --------------------------------------------------- onDuplicateDisplay
\* Mutant of duplicateOne: the source's config is not loaded into the copy.
duplicateOne_noLoad(w, src) ==
    LET made == createDisplay(w.registry, w.displays, w.nextId,
                              w.displays[src].classId, w.displays[src].name)
    IN  [registry |-> made.registry,
         displays |-> made.displays,
         nextId |-> made.nextId,
         duplicated_displays |-> Append(w.duplicated_displays, made.disp)]

\* Lines 172-180, one pass of the loop: a display of the source's class and
\* name is created, the source's config saved and loaded into it.
duplicateOne(w, src) ==
    LET lookup_name == w.displays[src].classId
        display_name == w.displays[src].name
        made == createDisplay(w.registry, w.displays, w.nextId,
                              lookup_name, display_name)
        disp == made.disp
        config == save(made.displays[src])
    IN  [registry |-> made.registry,
         displays |-> [made.displays EXCEPT ![disp] = load(@, config)],
         nextId |-> made.nextId,
         duplicated_displays |-> Append(w.duplicated_displays, disp)]

\* Lines 170-181: the loop over displays_to_duplicate, from index i.
RECURSIVE duplicateLoop(_, _, _)
duplicateLoop(w, displays_to_duplicate, i) ==
    IF i > Len(displays_to_duplicate)
    THEN w
    ELSE duplicateLoop(duplicateOne(w, displays_to_duplicate[i]),
                       displays_to_duplicate, i + 1)

\* Mutant of duplicateSelection: the selection stays on the sources.
duplicateSelection_kept(rows, duplicated_displays, sel) == sel

\* Lines 183-188: the new displays, first to last, become the selection.
duplicateSelection(rows, duplicated_displays, sel) ==
    IF Len(duplicated_displays) > 0
    THEN ItemSelection(rows, duplicated_displays[1],
                       duplicated_displays[Len(duplicated_displays)])
    ELSE sel

\* Lines 164-191, the whole slot, given room for the displays up to identity
\* last_id.
onDuplicateDisplayWithin(last_id) ==
    /\ pc = "idle"
    /\ LET displays_to_duplicate == getSelectedObjects(selection)
           w == duplicateLoop([registry |-> registry, displays |-> displays,
                               nextId |-> nextId, duplicated_displays |-> <<>>],
                              displays_to_duplicate, 1)
           new_selection == duplicateSelection(Rows(w.registry),
                                               w.duplicated_displays, selection)
       IN  /\ nextId + Len(displays_to_duplicate) - 1 <= last_id
           /\ registry' = w.registry
           /\ displays' = w.displays
           /\ nextId' = w.nextId
           /\ selection' = new_selection
           /\ enabled' = selectionHasChanged(enabled, w.displays, selection,
                                             new_selection)
           /\ calls' = [k \in 1..Len(w.duplicated_displays) |->
                           <<"createDisplay", w.duplicated_displays[k]>>]
                       \o << <<"startUpdate", 0>> >>
           /\ locals' = [NoLocals EXCEPT !.list = displays_to_duplicate]
           /\ outcome' = IF Len(displays_to_duplicate) = 0 THEN "empty" ELSE "duplicated"
    /\ updating' = TRUE
    /\ handler' = "duplicate"
    /\ message' = ""
    /\ pc' = "done"
    /\ UNCHANGED <<files, queue>>

onDuplicateDisplay == onDuplicateDisplayWithin(MaxDisplays + MaxDuplicates)

\* How a createDisplay() that cannot make the display ends: it signals the
\* error to its caller, or it hands back no display.
CreateFailures == {"error", "null"}

\* Lines 164-181 when createDisplay() fails in pass k of the loop.  The
\* passes before k have run.  An error signalled by createDisplay() leaves
\* the slot at line 175; a null disp is dereferenced at line 179, which ends
\* the program.  Lines 182-190 are not reached.
onDuplicateDisplay_createFails ==
    /\ pc = "idle"
    /\ LET displays_to_duplicate == getSelectedObjects(selection)
       IN  \E k \in DOMAIN displays_to_duplicate, failure \in CreateFailures :
            LET w == duplicateLoop([registry |-> registry, displays |-> displays,
                                    nextId |-> nextId,
                                    duplicated_displays |-> <<>>],
                                   SubSeq(displays_to_duplicate, 1, k - 1), 1)
            IN  /\ nextId + k - 2 <= MaxDisplays + MaxDuplicates
                /\ registry' = w.registry
                /\ displays' = w.displays
                /\ nextId' = w.nextId
                /\ calls' = [j \in 1..(k - 1) |->
                                <<"createDisplay", w.duplicated_displays[j]>>]
                            \o << <<"createDisplay", Invalid>> >>
                /\ locals' = [NoLocals EXCEPT !.list = displays_to_duplicate,
                                              !.i = k]
                /\ outcome' = IF failure = "error" THEN "create_error"
                                                   ELSE "null_dereference"
                /\ pc' = IF failure = "error" THEN "done" ELSE "crashed"
    /\ handler' = "duplicate"
    /\ message' = ""
    /\ UNCHANGED <<selection, enabled, updating, files, queue>>

\* ------------------------------------------------------ onDeleteDisplay
\* Mutant of onDeleteDisplay_begin: the displays are taken in the display
\* group's order.
onDeleteDisplay_begin_groupOrder ==
    /\ pc = "idle"
    /\ LET displays_to_delete ==
               SelectSeq(registry, LAMBDA d : d \in Range(selection))
       IN  /\ locals' = [NoLocals EXCEPT !.list = displays_to_delete, !.i = 1]
           /\ pc' = IF Len(displays_to_delete) > 0
                    THEN "delete_disconnect" ELSE "delete_select"
    /\ handler' = "delete"
    /\ outcome' = "none"
    /\ calls' = <<>>
    /\ message' = ""
    /\ UNCHANGED <<world, selection, enabled, updating, files, queue>>

\* Lines 195-199: the selected displays are read; the loop starts.
onDeleteDisplay_begin ==
    /\ pc = "idle"
    /\ LET displays_to_delete == getSelectedObjects(selection)
       IN  /\ locals' = [NoLocals EXCEPT !.list = displays_to_delete, !.i = 1]
           /\ pc' = IF Len(displays_to_delete) > 0
                    THEN "delete_disconnect" ELSE "delete_select"
    /\ handler' = "delete"
    /\ outcome' = "none"
    /\ calls' = <<>>
    /\ message' = ""
    /\ UNCHANGED <<world, selection, enabled, updating, files, queue>>

\* Lines 201-205: the row before the first display of the list.
newSelected(rows, displays_to_delete) ==
    sibling(rows, indexOf(rows, displays_to_delete[1]) - 1)

\* Mutant of disconnect: the signals stay connected.
disconnect_kept(rec) == rec

\* QObject::disconnect(): nobody listens to the display's signals any more.
disconnect(rec) == [rec EXCEPT !.connected = FALSE]

\* Lines 201-208: on the first pass new_selected is computed; the display's
\* signals are disconnected.
onDeleteDisplay_disconnect ==
    /\ pc = "delete_disconnect"
    /\ LET d == locals.list[locals.i]
       IN  /\ locals' = IF locals.i = 1
                        THEN [locals EXCEPT !.new_selected =
                                 newSelected(Rows(registry), locals.list)]
                        ELSE locals
           /\ displays' = [displays EXCEPT ![d] = disconnect(@)]
           /\ calls' = Append(calls, <<"disconnect", d>>)
    /\ pc' = "delete_deleteLater"
    /\ UNCHANGED <<registry, nextId, selection, enabled, updating, files,
                   queue, handler, outcome, message>>

\* Mutant of deleteLater: no event is posted.
deleteLater_dropped(q, d) == q

\* QObject::deleteLater(): a DeferredDelete event is posted to the display,
\* unless one is posted already.
deleteLater(q, d) ==
    IF \E k \in DOMAIN q : q[k] = [type |-> "delete", d |-> d]
    THEN q
    ELSE Append(q, [type |-> "delete", d |-> d])

\* Mutant of onDeleteDisplay_deleteLater: the display is deleted at once.
onDeleteDisplay_deleteNow ==
    /\ pc = "delete_deleteLater"
    /\ LET d == locals.list[locals.i]
           new_selection == Remove(selection, d)
       IN  /\ displays' = [displays EXCEPT ![d] = [NoDisplay EXCEPT !.life = "dead"]]
           /\ registry' = Remove(registry, d)
           /\ selection' = new_selection
           /\ enabled' = selectionHasChanged(enabled, displays, selection,
                                             new_selection)
           /\ calls' = Append(calls, <<"deleteLater", d>>)
    /\ locals' = [locals EXCEPT !.i = @ + 1]
    /\ pc' = IF locals.i + 1 <= Len(locals.list)
             THEN "delete_disconnect" ELSE "delete_select"
    /\ UNCHANGED <<nextId, updating, files, queue, handler, outcome, message>>

\* Line 210 and the loop's step.
onDeleteDisplay_deleteLater ==
    /\ pc = "delete_deleteLater"
    /\ LET d == locals.list[locals.i]
       IN  /\ queue' = deleteLater(queue, d)
           /\ displays' = [displays EXCEPT ![d].life = "doomed"]
           /\ calls' = Append(calls, <<"deleteLater", d>>)
    /\ locals' = [locals EXCEPT !.i = @ + 1]
    /\ pc' = IF locals.i + 1 <= Len(locals.list)
             THEN "delete_disconnect" ELSE "delete_select"
    /\ UNCHANGED <<registry, nextId, selection, enabled, updating, files,
                   handler, outcome, message>>

\* Lines 213-216: new_selected becomes the selection; the host is told.
onDeleteDisplay_select ==
    /\ pc = "delete_select"
    /\ LET new_selection == ItemSelection(Rows(registry), locals.new_selected,
                                          locals.new_selected)
       IN  /\ selection' = new_selection
           /\ enabled' = selectionHasChanged(enabled, displays, selection,
                                             new_selection)
    /\ calls' = Append(calls, <<"notifyConfigChanged", 0>>)
    /\ outcome' = IF Len(locals.list) = 0 THEN "empty" ELSE "deleted"
    /\ pc' = "done"
    /\ UNCHANGED <<world, updating, files, queue, handler, message, locals>>

\* ------------------------------------------------------ onRenameDisplay
\* What the user can type into the QInputDialog; cancelling gives "".
RenameInputs == {"", "Alpha", "Beta"}

\* Display::setName( name )
setName(rec, new_name) == [rec EXCEPT !.name = new_name]

\* Lines 235-239: no display is selected.
onRenameDisplay_empty ==
    /\ pc = "idle"
    /\ Len(getSelectedObjects(selection)) = 0
    /\ handler' = "rename"
    /\ outcome' = "empty"
    /\ calls' = <<>>
    /\ message' = ""
    /\ locals' = NoLocals
    /\ pc' = "done"
    /\ UNCHANGED <<world, selection, enabled, updating, files, queue>>

\* Mutant of onRenameDisplay_getText: the last selected display is renamed.
onRenameDisplay_getText_last ==
    /\ pc = "idle"
    /\ LET displays_ == getSelectedObjects(selection)
       IN  /\ Len(displays_) # 0
           /\ locals' = [NoLocals EXCEPT
                             !.list = displays_,
                             !.display = displays_[Len(displays_)],
                             !.old_name = displays[displays_[Len(displays_)]].name]
    /\ handler' = "rename"
    /\ outcome' = "none"
    /\ calls' = <<>>
    /\ message' = ""
    /\ pc' = "rename_getText"
    /\ UNCHANGED <<world, selection, enabled, updating, files, queue>>

\* Lines 240-248: the first selected display's name is read and the text
\* prompt opens.
onRenameDisplay_getText ==
    /\ pc = "idle"
    /\ LET displays_ == getSelectedObjects(selection)
       IN  /\ Len(displays_) # 0
           /\ locals' = [NoLocals EXCEPT !.list = displays_,
                                         !.display = displays_[1],
                                         !.old_name = displays[displays_[1]].name]
    /\ handler' = "rename"
    /\ outcome' = "none"
    /\ calls' = <<>>
    /\ message' = ""
    /\ pc' = "rename_getText"
    /\ UNCHANGED <<world, selection, enabled, updating, files, queue>>

\* Lines 248-255: the prompt returns new_name, one of new_names.
onRenameDisplay_namedOf(new_names) ==
    /\ pc = "rename_getText"
    /\ \E new_name \in new_names :
        /\ locals' = [locals EXCEPT !.new_name = new_name]
        /\ IF new_name = "" \/ new_name = locals.old_name
           THEN /\ outcome' = "unchanged"
                /\ UNCHANGED <<displays, calls>>
           ELSE /\ outcome' = "renamed"
                /\ displays' = [displays EXCEPT
                                    ![locals.display] = setName(@, new_name)]
                /\ calls' = Append(calls, <<"setName", locals.display>>)
    /\ pc' = "done"
    /\ UNCHANGED <<registry, nextId, selection, enabled, updating, files,
                   queue, handler, message>>

\* Lines 248-255 with every text the input dialog can hand back.
onRenameDisplay_named == onRenameDisplay_namedOf(RenameInputs)

\* --------------------------------------------------- onSaveGroupDisplay
\* File names are sequences of parts: a stem, then the extensions.
SaveNames == {<<>>, <<"g">>, <<"g", ".rviz">>, <<"g", ".txt">>}

\* boost::filesystem::path::extension(): the last extension, or "".
extension(filename) ==
    IF Len(filename) > 1 THEN filename[Len(filename)] ELSE ""

\* Mutant of withConfigExtension: the extension is appended to every name.
withConfigExtension_always(filename) == Append(filename, DotConfigExtension)

\* Lines 280-285: the extension is appended unless the name ends with it.
withConfigExtension(filename) ==
    IF extension(filename) # DotConfigExtension
    THEN Append(filename, DotConfigExtension)
    ELSE filename

\* Mutant of isEmpty: the cancelled chooser is not noticed.
isEmpty_never(filename) == FALSE

\* QString::isEmpty() of a file name: the chooser was cancelled.
isEmpty(filename) == filename = <<>>

\* YamlConfigWriter::writeFile( config, path ) without an error.
writeFile(fs, path, config) ==
    [p \in DOMAIN fs \cup {path} |-> IF p = path THEN config ELSE fs[p]]

\* Lines 260-264: not exactly one display is selected.
onSaveGroupDisplay_skip ==
    /\ pc = "idle"
    /\ Len(getSelectedObjects(selection)) # 1
    /\ handler' = "save"
    /\ outcome' = "not_one"
    /\ calls' = <<>>
    /\ message' = ""
    /\ locals' = NoLocals
    /\ pc' = "done"
    /\ UNCHANGED <<world, selection, enabled, updating, files, queue>>

\* Lines 265-274: the update loop is stopped and the file chooser opens.
onSaveGroupDisplay_getSaveFileName ==
    /\ pc = "idle"
    /\ LET displays_ == getSelectedObjects(selection)
       IN  /\ Len(displays_) = 1
           /\ locals' = [NoLocals EXCEPT !.list = displays_,
                                         !.display = displays_[1]]
    /\ handler' = "save"
    /\ outcome' = "none"
    /\ calls' = << <<"stopUpdate", 0>> >>
    /\ updating' = FALSE
    /\ message' = ""
    /\ pc' = "save_getSaveFileName"
    /\ UNCHANGED <<world, selection, enabled, files, queue>>

\* Lines 275-307: the chooser returns save_filename; the config is written.
onSaveGroupDisplay_chosen ==
    /\ pc = "save_getSaveFileName"
    /\ updating' = TRUE
    /\ \E save_filename \in SaveNames, writer_error \in BOOLEAN :
        LET filename == withConfigExtension(save_filename)
            config == save(displays[locals.display])
        IN  /\ locals' = [locals EXCEPT !.filename = save_filename]
            /\ IF isEmpty(save_filename)
               THEN /\ ~writer_error
                    /\ outcome' = "cancelled"
                    /\ calls' = Append(calls, <<"startUpdate", 0>>)
                    /\ UNCHANGED <<files, message>>
               ELSE IF writer_error
               THEN /\ outcome' = "write_error"
                    /\ calls' = calls \o << <<"startUpdate", 0>>,
                                           <<"writeFile", filename>> >>
                    /\ message' = "write failed"
                    /\ UNCHANGED files
               ELSE /\ outcome' = "saved"
                    /\ calls' = calls \o << <<"startUpdate", 0>>,
                                           <<"writeFile", filename>> >>
                    /\ files' = writeFile(files, filename, config)
                    /\ UNCHANGED message
    /\ pc' = "done"
    /\ UNCHANGED <<world, selection, enabled, queue, handler>>

\* --------------------------------------------------- onLoadGroupDisplay
LoadNames == {<<>>, <<"g", ".rviz">>, <<"old", ".rviz">>}

\* Mutant of exists: every path is taken to exist.
exists_always(fs, path) == TRUE

\* boost::filesystem::exists( path )
exists(fs, path) == path \in DOMAIN fs /\ fs[path] # NoFile

\* vis_manager_->loadGroup( config ): a new group display with the saved
\* configuration is appended to the root display group.
loadGroup(reg, ds, nid, config) ==
    LET made == createDisplay(reg, ds, nid, GroupClassId, config.Name)
    IN  [made EXCEPT !.displays = [@ EXCEPT ![made.disp] = load(@, config)]]

\* Lines 312-315: the update loop is stopped and the file chooser opens.
onLoadGroupDisplay_getOpenFileName ==
    /\ pc = "idle"
    /\ handler' = "load"
    /\ outcome' = "none"
    /\ calls' = << <<"stopUpdate", 0>> >>
    /\ updating' = FALSE
    /\ message' = ""
    /\ locals' = NoLocals
    /\ pc' = "load_getOpenFileName"
    /\ UNCHANGED <<world, selection, enabled, files, queue>>

\* Lines 316-335: the chooser returns filename; the file is read and the
\* host asked to load the group.
onLoadGroupDisplay_chosen ==
    /\ pc = "load_getOpenFileName"
    /\ updating' = TRUE
    /\ \E filename \in LoadNames, reader_error \in BOOLEAN :
        /\ locals' = [locals EXCEPT !.filename = filename]
        /\ IF isEmpty(filename)
           THEN /\ ~reader_error
                /\ outcome' = "cancelled"
                /\ calls' = Append(calls, <<"startUpdate", 0>>)
                /\ UNCHANGED <<world, message>>
           ELSE IF ~exists(files, filename)
           THEN /\ ~reader_error
                /\ outcome' = "missing"
                /\ calls' = Append(calls, <<"startUpdate", 0>>)
                /\ message' = "does not exist!"
                /\ UNCHANGED world
           ELSE IF reader_error
           THEN /\ outcome' = "read_error"
                /\ calls' = calls \o << <<"startUpdate", 0>>,
                                       <<"readFile", filename>> >>
                /\ UNCHANGED <<world, message>>
           ELSE /\ nextId <= MaxDisplays
                /\ LET made == loadGroup(registry, displays, nextId,
                                         files[filename])
                   IN  /\ registry' = made.registry
                       /\ displays' = made.displays
                       /\ nextId' = made.nextId
                       /\ calls' = calls \o << <<"startUpdate", 0>>,
                                              <<"readFile", filename>>,
                                              <<"loadGroup", made.disp>> >>
                /\ outcome' = "loaded"
                /\ UNCHANGED message
    /\ pc' = "done"
    /\ UNCHANGED <<selection, enabled, files, queue, handler>>

\* ------------------------------------------- the control thread's event loop
\* The control thread is in an event loop: the main one, or a dialog's.
PromptPcs == {"add_exec", "rename_getText", "save_getSaveFileName",
              "load_getOpenFileName"}

InEventLoop == pc = "idle" \/ pc \in PromptPcs

\* A queued display signal is delivered to its listener.  A dialog's nested
\* loop passes over the DeferredDelete events posted from the main loop.
DeliverNotify ==
    /\ InEventLoop
    /\ \E k \in DOMAIN queue :
        /\ queue[k].type = "notify"
        /\ \A j \in 1..(k - 1) : queue[j].type = "delete"
        /\ k = 1 \/ pc \in PromptPcs
        /\ queue' = [j \in 1..(Len(queue) - 1) |->
                        IF j < k THEN queue[j] ELSE queue[j + 1]]
    /\ UNCHANGED <<world, selection, enabled, updating, files, pc, trace>>

\* The main loop handles a DeferredDelete event: the display is destroyed,
\* its destructor takes it out of the display group, and the selection model
\* drops its row.
DeliverDelete ==
    /\ pc = "idle"
    /\ queue # <<>>
    /\ Head(queue).type = "delete"
    /\ LET d == Head(queue).d
           new_selection == Remove(selection, d)
       IN  /\ displays' = [displays EXCEPT ![d] = [NoDisplay EXCEPT !.life = "dead"]]
           /\ registry' = Remove(registry, d)
           /\ selection' = new_selection
           /\ enabled' = selectionHasChanged(enabled, displays, selection,
                                             new_selection)
    /\ queue' = Tail(queue)
    /\ UNCHANGED <<nextId, updating, files, pc, trace>>

\* ------------------------------------------------------ the display threads
\* A display emits a signal from its own thread: each connected listener of
\* the control thread gets a queued call carrying the display's pointer.
Emit ==
    /\ \E d \in Ids :
        /\ displays[d].life \in {"alive", "doomed"}
        /\ displays[d].connected
        /\ Count(queue, [type |-> "notify", d |-> d]) = 0
        /\ Cardinality({k \in DOMAIN queue : queue[k].type = "notify"}) < MaxQueue
        /\ queue' = Append(queue, [type |-> "notify", d |-> d])
    /\ UNCHANGED <<world, selection, enabled, updating, files, pc, trace>>

\* The slot returns to the event loop.
Return ==
    /\ pc = "done"
    /\ pc' = "idle"
    /\ handler' = "none"
    /\ outcome' = "none"
    /\ calls' = <<>>
    /\ message' = ""
    /\ locals' = NoLocals
    /\ UNCHANGED <<world, selection, enabled, updating, files, queue>>

\* ------------------------------------------------------- the user's clicks
\* The selections of at most n distinct rows, in any order.
RECURSIVE Selections(_, _)
Selections(rows, n) ==
    IF n = 0
    THEN {<<>>}
    ELSE LET shorter == Selections(rows, n - 1)
         IN  shorter \cup
             UNION {{Append(s, r) : r \in rows \ Range(s)} :
                        s \in {t \in shorter : Len(t) = n - 1}}

\* The user changes the selection in the tree: to the structural row, or to
\* some displays.
UserSelect ==
    /\ pc = "idle"
    /\ \E s \in {<<StructRow>>} \cup Selections(Range(registry), MaxSel) :
        /\ Range(s) # Range(selection)
        /\ selection' = s
        /\ enabled' = selectionHasChanged(enabled, displays, selection, s)
    /\ UNCHANGED <<world, updating, files, queue, pc, trace>>

\* --------------------------------------------------------- specifications
\* Every slot, the user, the event loop and the display threads.
Next ==
    \/ onNewDisplay_exec
    \/ onNewDisplay_accepted
    \/ onNewDisplay_rejected
    \/ onDuplicateDisplay
    \/ onDuplicateDisplay_createFails
    \/ onDeleteDisplay_begin
    \/ onDeleteDisplay_disconnect
    \/ onDeleteDisplay_deleteLater
    \/ onDeleteDisplay_select
    \/ onRenameDisplay_empty
    \/ onRenameDisplay_getText
    \/ onRenameDisplay_named
    \/ onSaveGroupDisplay_skip
    \/ onSaveGroupDisplay_getSaveFileName
    \/ onSaveGroupDisplay_chosen
    \/ onLoadGroupDisplay_getOpenFileName
    \/ onLoadGroupDisplay_chosen
    \/ Return
    \/ UserSelect
    \/ DeliverNotify
    \/ DeliverDelete
    \/ Emit

Spec == Init /\ [][Next]_vars

\* Every handler and event that touches the selection or the flags, with one
\* plain display class from Add, groups from Load Group, and a rename that is
\* either cancelled or gives the name "Alpha".
NextSelection ==
    \/ onNewDisplay_exec
    \/ onNewDisplay_acceptedOf({PlainChoice})
    \/ onNewDisplay_rejected
    \/ onDuplicateDisplayWithin(MaxDisplays)
    \/ onDeleteDisplay_begin
    \/ onDeleteDisplay_disconnect
    \/ onDeleteDisplay_deleteLater
    \/ onDeleteDisplay_select
    \/ onRenameDisplay_empty
    \/ onRenameDisplay_getText
    \/ onRenameDisplay_namedOf({"", "Alpha"})
    \/ onLoadGroupDisplay_getOpenFileName
    \/ onLoadGroupDisplay_chosen
    \/ Return
    \/ UserSelect
    \/ DeliverDelete

SpecSelection == Init /\ [][NextSelection]_vars

\* The slots that change the display group, with the deferred deletes; the
\* duplicates stay within MaxDisplays.
NextLifecycle ==
    \/ onNewDisplay_exec
    \/ onNewDisplay_accepted
    \/ onNewDisplay_rejected
    \/ onDuplicateDisplayWithin(MaxDisplays)
    \/ onDeleteDisplay_begin
    \/ onDeleteDisplay_disconnect
    \/ onDeleteDisplay_deleteLater
    \/ onDeleteDisplay_select
    \/ onRenameDisplay_empty
    \/ onRenameDisplay_getText
    \/ onRenameDisplay_named
    \/ onLoadGroupDisplay_getOpenFileName
    \/ onLoadGroupDisplay_chosen
    \/ Return
    \/ UserSelect
    \/ DeliverDelete

SpecLifecycle == Init /\ [][NextLifecycle]_vars

\* Add and Duplicate, with room for MaxDuplicates more displays.
NextDuplicate ==
    \/ onNewDisplay_exec
    \/ onNewDisplay_accepted
    \/ onNewDisplay_rejected
    \/ onDuplicateDisplay
    \/ Return
    \/ UserSelect

SpecDuplicate == Init /\ [][NextDuplicate]_vars

\* Delete against the display threads and the event loop; every display is
\* added as PlainChoice.
NextDelete ==
    \/ onNewDisplay_exec
    \/ onNewDisplay_acceptedOf({PlainChoice})
    \/ onNewDisplay_rejected
    \/ onDeleteDisplay_begin
    \/ onDeleteDisplay_disconnect
    \/ onDeleteDisplay_deleteLater
    \/ onDeleteDisplay_select
    \/ Return
    \/ UserSelect
    \/ DeliverNotify
    \/ DeliverDelete
    \/ Emit

SpecDelete == Init /\ [][NextDelete]_vars

\* Add, Save Group and Load Group against the file system.
NextGroup ==
    \/ onNewDisplay_exec
    \/ onNewDisplay_accepted
    \/ onNewDisplay_rejected
    \/ onSaveGroupDisplay_skip
    \/ onSaveGroupDisplay_getSaveFileName
    \/ onSaveGroupDisplay_chosen
    \/ onLoadGroupDisplay_getOpenFileName
    \/ onLoadGroupDisplay_chosen
    \/ Return
    \/ UserSelect

SpecGroup == Init /\ [][NextGroup]_vars

\* Add and Rename: displays of several names, renamed one at a time.
NextRename ==
    \/ onNewDisplay_exec
    \/ onNewDisplay_accepted
    \/ onNewDisplay_rejected
    \/ onRenameDisplay_empty
    \/ onRenameDisplay_getText
    \/ onRenameDisplay_named
    \/ Return
    \/ UserSelect

SpecRename == Init /\ [][NextRename]_vars

\* The four slots that work on the selected displays, with plain displays.
NextOnSelection ==
    \/ onNewDisplay_exec
    \/ onNewDisplay_acceptedOf({PlainChoice})
    \/ onNewDisplay_rejected
    \/ onDuplicateDisplayWithin(MaxDisplays)
    \/ onDeleteDisplay_begin
    \/ onDeleteDisplay_disconnect
    \/ onDeleteDisplay_deleteLater
    \/ onDeleteDisplay_select
    \/ onRenameDisplay_empty
    \/ onRenameDisplay_getText
    \/ onRenameDisplay_namedOf({"", "Beta"})
    \/ onSaveGroupDisplay_skip
    \/ onSaveGroupDisplay_getSaveFileName
    \/ onSaveGroupDisplay_chosen
    \/ Return
    \/ UserSelect
    \/ DeliverDelete

SpecOnSelection == Init /\ [][NextOnSelection]_vars

\* Add and Duplicate with a createDisplay() that can fail in Duplicate.
NextFactory ==
    \/ onNewDisplay_exec
    \/ onNewDisplay_accepted
    \/ onNewDisplay_rejected
    \/ onDuplicateDisplay
    \/ onDuplicateDisplay_createFails
    \/ Return
    \/ UserSelect

SpecFactory == Init /\ [][NextFactory]_vars

\* ------------------------------------------------------------------ claims
\* C1: in every slot, on every exit path, no startUpdate() is issued without
\* an unmatched stopUpdate() before it, and when the slot is done it has
\* issued as many startUpdate() as stopUpdate() calls.
C1_PauseResumeBalanced ==
    \A n \in 0..Len(calls) :
        LET starts == Cardinality({k \in 1..n : calls[k][1] = "startUpdate"})
            stops == Cardinality({k \in 1..n : calls[k][1] = "stopUpdate"})
        IN  /\ starts <= stops
            /\ pc = "done" /\ n = Len(calls) => starts = stops
\* C2: in Delete a display's signals are disconnected before its deleteLater()
\* is issued, a display scheduled for destruction is disconnected, and no
\* selected display is destroyed inside the slot: while the slot runs each is
\* still in the display group, and when it is done each is disconnected with
\* its destruction pending in the event queue.
C2_SeverThenDeferDestruction ==
    /\ \A k \in DOMAIN calls :
        calls[k][1] = "deleteLater" =>
            \E j \in 1..(k - 1) :
                calls[j][1] = "disconnect" /\ calls[j][2] = calls[k][2]
    /\ \A d \in Ids : displays[d].life = "doomed" => ~displays[d].connected
    /\ handler = "delete" =>
        \A k \in DOMAIN locals.list :
            LET d == locals.list[k]
            IN  /\ displays[d].life \in {"alive", "doomed"}
                /\ d \in Range(registry)
                /\ pc = "done" =>
                    /\ displays[d].life = "doomed"
                    /\ ~displays[d].connected
                    /\ Count(queue, [type |-> "delete", d |-> d]) = 1

\* C2 witness: Delete is done with two displays selected.
C2_Witness ==
    /\ pc = "done"
    /\ handler = "delete"
    /\ Len(locals.list) = 2
    /\ Len(calls) = 5

\* C3: no queued notification and no entry of the display group refers to a
\* destroyed display; a display's queued notifications are ahead of its
\* deferred delete in the event queue; and once a display is disconnected no
\* further notification of it is queued.
C3_NoNotificationToDestroyed ==
    /\ [](/\ \A k \in DOMAIN queue :
              queue[k].type = "notify" =>
                  displays[queue[k].d].life \in {"alive", "doomed"}
          /\ \A d \in Range(registry) :
              displays[d].life \in {"alive", "doomed"}
          /\ \A j, k \in DOMAIN queue :
              /\ queue[j].type = "delete"
              /\ queue[k].type = "notify"
              /\ queue[j].d = queue[k].d
              => k < j)
    /\ [][\A d \in Ids :
              ~displays[d].connected =>
                  Count(queue', [type |-> "notify", d |-> d])
                      <= Count(queue, [type |-> "notify", d |-> d])]_vars

\* C3 witness: a notification of a display is still queued, ahead of that
\* display's deferred delete, while the slot is between two displays.
C3_Witness ==
    /\ pc = "delete_disconnect"
    /\ locals.i = 2
    /\ \E j, k \in DOMAIN queue :
        /\ j < k
        /\ queue[j] = [type |-> "notify", d |-> locals.list[1]]
        /\ queue[k] = [type |-> "delete", d |-> locals.list[1]]
\* C4: in every state the flags are the functions of the selected displays:
\* duplicate and delete enabled iff some display is selected, rename iff
\* exactly one is, save-group iff exactly one is and it is a group.
C4_FlagsFollowSelection ==
    LET selected == {d \in Ids : \E k \in DOMAIN selection : selection[k] = d}
    IN  /\ enabled.duplicate_button_ <=> selected # {}
        /\ enabled.remove_button_ <=> selected # {}
        /\ enabled.rename_button_ <=> Cardinality(selected) = 1
        /\ enabled.save_group_button_ <=>
               \E d \in selected :
                   selected = {d} /\ displays[d].classId = GroupClassId

\* C4 witness: Delete is done and left exactly one display selected, not a
\* group, where a group was selected before.
C4_Witness ==
    /\ pc = "done"
    /\ handler = "delete"
    /\ \E d \in Ids :
        /\ selection = <<d>>
        /\ displays[d].classId # GroupClassId
    /\ \E k \in DOMAIN locals.list :
        displays[locals.list[k]].classId = GroupClassId

\* C5: Delete on N selected displays takes exactly those N out of the display
\* group, each when its deferred delete runs.  When the slot is done the N
\* selected displays are distinct, still in the group and each has exactly
\* one deferred delete queued; the displays with a deferred delete queued are
\* exactly those scheduled for destruction; a display is scheduled only by
\* Delete and only if it was selected; and the group shrinks only by a
\* deferred delete running, which removes exactly its display.
C5_DeleteRemovesSelected ==
    /\ [](pc = "done" /\ handler = "delete" =>
            /\ Cardinality(Range(locals.list)) = Len(locals.list)
            /\ \A d \in Range(locals.list) :
                /\ Count(registry, d) = 1
                /\ displays[d].life = "doomed"
                /\ Count(queue, [type |-> "delete", d |-> d]) = 1)
    /\ [](\A d \in Ids :
            /\ displays[d].life = "doomed" <=>
                   Count(queue, [type |-> "delete", d |-> d]) = 1
            /\ Count(queue, [type |-> "delete", d |-> d]) <= 1
            /\ Count(registry, d) =
                   IF displays[d].life \in {"alive", "doomed"} THEN 1 ELSE 0)
    /\ [][\A d \in Ids :
            /\ displays'[d].life = "doomed" /\ displays[d].life # "doomed" =>
                   /\ handler = "delete"
                   /\ \E k \in DOMAIN locals.list : locals.list[k] = d
            /\ Count(registry, d) = 1 /\ Count(registry', d) = 0 =>
                   /\ queue # <<>>
                   /\ Head(queue) = [type |-> "delete", d |-> d]
                   /\ queue' = Tail(queue)
                   /\ registry' = Remove(registry, d)
                   /\ Len(registry') = Len(registry) - 1]_vars

\* C5 witness: the display group holds three displays and Delete is done with
\* the second and third of them selected.
C5_Witness ==
    /\ pc = "done"
    /\ handler = "delete"
    /\ Len(registry) = 3
    /\ locals.list = <<registry[2], registry[3]>>
\* C6: right after Delete of a non-empty selection, the selection is the row
\* just before the first deleted display in the display group's order, and
\* it holds no display that Delete removed or scheduled for destruction.
C6_DeleteSelectsPredecessor ==
    pc = "done" /\ handler = "delete" /\ Len(locals.list) > 0 =>
        LET rows == <<StructRow>> \o registry
            deleted == {k \in DOMAIN rows :
                           \E j \in DOMAIN locals.list : locals.list[j] = rows[k]}
            first == CHOOSE k \in deleted : \A j \in deleted : k <= j
        IN  /\ selection = <<rows[first - 1]>>
            /\ \A k \in DOMAIN selection :
                selection[k] \in Ids =>
                    /\ displays[selection[k]].life = "alive"
                    /\ \A j \in DOMAIN locals.list : locals.list[j] # selection[k]

\* C7: Duplicate of a non-empty selection appends one new display per selected
\* display, in the selection's order, each a fresh identity with the class
\* id, the name and the configuration of its source; every display that
\* existed before, and the order of the group before the new ones, is
\* unchanged.
C7_DuplicateCopiesSelection ==
    [][pc = "idle" /\ handler' = "duplicate" =>
        LET sources == SelectSeq(selection, LAMBDA item : item \in Ids)
            n == Len(sources)
            old == Len(registry)
        IN  n > 0 =>
            /\ Len(registry') = old + n
            /\ SubSeq(registry', 1, old) = registry
            /\ \A j, k \in DOMAIN registry' : j # k => registry'[j] # registry'[k]
            /\ \A k \in 1..n :
                LET new == registry'[old + k]
                    source == sources[k]
                IN  /\ displays[new].life = "free"
                    /\ displays'[new].life = "alive"
                    /\ displays'[new].classId = displays[source].classId
                    /\ displays'[new].name = displays[source].name
                    /\ displays'[new].topic = displays[source].topic
            /\ \A d \in Ids :
                displays[d].life # "free" => displays'[d] = displays[d]]_vars

\* C7 witness: Duplicate is done with two displays selected, the later one of
\* the group listed first, the sources differing in name and topic.
C7_Witness ==
    /\ pc = "done"
    /\ handler = "duplicate"
    /\ Len(locals.list) = 2
    /\ locals.list[1] > locals.list[2]
    /\ displays[locals.list[1]].topic = "/t"
    /\ displays[locals.list[2]].topic = ""
    /\ displays[locals.list[1]].name # displays[locals.list[2]].name

\* C8: while a prompt is open (the add dialog, the rename text input, the
\* save or the load file chooser) the update loop is paused.
C8_PausedWhilePromptOpen ==
    pc \in {"add_exec", "rename_getText", "save_getSaveFileName",
            "load_getOpenFileName"} => ~updating

\* C9 as claimed: Add of TypeA/Alpha without a topic to an empty display
\* group leaves one display, Alpha of TypeA, with duplicate, delete and
\* rename enabled and save-group disabled.
C9_AddEnablesAffordances ==
    /\ pc = "done"
    /\ handler = "add"
    /\ locals.result = "Accepted"
    /\ Len(registry) = 1
    /\ calls[2] = <<"createDisplay", registry[1]>>
    /\ displays[registry[1]].topic = ""
    => /\ displays[registry[1]].name = "Alpha"
       /\ displays[registry[1]].classId = "TypeA"
       /\ enabled.duplicate_button_
       /\ enabled.remove_button_
       /\ enabled.rename_button_
       /\ ~enabled.save_group_button_

\* C9 as amended: Add of TypeA/Alpha without a topic to an empty display
\* group leaves one display, Alpha of TypeA; Add does not select it, so no
\* display is selected and duplicate, delete, rename and save-group are all
\* disabled.
C9_AddLeavesAffordances ==
    /\ pc = "done"
    /\ handler = "add"
    /\ locals.result = "Accepted"
    /\ Len(registry) = 1
    /\ calls[2] = <<"createDisplay", registry[1]>>
    /\ displays[registry[1]].topic = ""
    => /\ displays[registry[1]].name = "Alpha"
       /\ displays[registry[1]].classId = "TypeA"
       /\ displays[registry[1]].life = "alive"
       /\ \A k \in DOMAIN selection : selection[k] \notin Ids
       /\ ~enabled.duplicate_button_
       /\ ~enabled.remove_button_
       /\ ~enabled.rename_button_
       /\ ~enabled.save_group_button_

\* C9 witness: Add has just put the first display, Alpha of TypeA, into the
\* empty display group.
C9_Witness ==
    /\ pc = "done"
    /\ handler = "add"
    /\ locals.result = "Accepted"
    /\ registry = <<1>>
    /\ displays[1].name = "Alpha"
    /\ displays[1].classId = "TypeA"
    /\ displays[1].topic = ""

\* C10: a cancelled Add, Save Group or Load Group changes neither the display
\* group, the displays, the selection, the flags nor the files, in the step
\* that opens the prompt and in the step that cancels it; when it is done it
\* has called only stopUpdate() and startUpdate(), shown no error, and the
\* update loop runs.
C10_CancelIsNoOp ==
    /\ [](/\ pc = "done"
          /\ \/ handler = "add" /\ locals.result = "Rejected"
             \/ handler \in {"save", "load"} /\ calls # <<>>
                    /\ locals.filename = <<>>
          => /\ calls = << <<"stopUpdate", 0>>, <<"startUpdate", 0>> >>
             /\ message = ""
             /\ updating)
    /\ [][\/ pc = "idle" /\ pc' \in {"add_exec", "save_getSaveFileName",
                                     "load_getOpenFileName"}
          \/ pc = "add_exec" /\ locals'.result = "Rejected"
          \/ pc \in {"save_getSaveFileName", "load_getOpenFileName"}
                 /\ pc' = "done" /\ locals'.filename = <<>>
          => UNCHANGED <<registry, displays, nextId, selection, enabled,
                         files>>]_vars

\* C10 witness: Load Group is done after its chooser was cancelled, with a
\* display in the group and a file saved before.
C10_Witness ==
    /\ pc = "done"
    /\ handler = "load"
    /\ calls # <<>>
    /\ locals.filename = <<>>
    /\ registry # <<>>
    /\ files[<<"g", ".rviz">>] # NoFile
\* C11: Rename never changes the display group's members or order and never
\* changes a display other than the first selected one.  With no display
\* selected, or with an empty input or the old name as input, no display
\* changes; with any other input the first selected display's name becomes
\* the input and nothing else of it changes.
C11_RenameFirstSelectedOnly ==
    /\ [][pc = "idle" /\ handler' = "rename" =>
            /\ UNCHANGED <<registry, displays>>
            /\ SelectSeq(selection, LAMBDA item : item \in Ids) = <<>> =>
                   pc' = "done"]_vars
    /\ [][pc = "rename_getText" =>
            LET first == SelectSeq(selection, LAMBDA item : item \in Ids)[1]
                input == locals'.new_name
            IN  /\ registry' = registry
                /\ \A d \in Ids : d # first => displays'[d] = displays[d]
                /\ displays'[first] =
                     IF input = "" \/ input = displays[first].name
                     THEN displays[first]
                     ELSE [displays[first] EXCEPT !.name = input]]_vars

\* C11 witness: two displays of different names were selected, the later one
\* of the group first, and Rename gave that one a new name.
C11_Witness ==
    /\ pc = "done"
    /\ handler = "rename"
    /\ outcome = "renamed"
    /\ Len(locals.list) = 2
    /\ locals.list[1] > locals.list[2]
    /\ displays[locals.list[1]].name = locals.new_name
    /\ displays[locals.list[2]].name # locals.new_name
    /\ locals.old_name = displays[locals.list[2]].name
\* C12: Load Group with a chosen path that does not exist shows an error,
\* does not read, does not call loadGroup() and leaves the display group as
\* it was; a read error shows nothing and does not call loadGroup(); the
\* display group changes only by a loadGroup() call, made at most once, after
\* startUpdate() and right after the read; in every case the update loop
\* runs when the slot is done.
C12_LoadGroupErrors ==
    /\ [](pc = "done" /\ handler = "load" =>
            LET loads == {k \in DOMAIN calls : calls[k][1] = "loadGroup"}
                reads == {k \in DOMAIN calls : calls[k][1] = "readFile"}
            IN  /\ updating
                /\ locals.filename # <<>> /\ files[locals.filename] = NoFile =>
                       /\ message # ""
                       /\ loads = {}
                       /\ reads = {}
                /\ outcome = "read_error" =>
                       /\ loads = {}
                       /\ message = ""
                /\ Cardinality(loads) <= 1
                /\ \A k \in loads :
                       /\ k > 2
                       /\ k = Len(calls)
                       /\ calls[k - 1] = <<"readFile", locals.filename>>
                       /\ calls[k - 2] = <<"startUpdate", 0>>
                       /\ files[locals.filename] # NoFile
                       /\ outcome = "loaded")
    /\ [][pc = "load_getOpenFileName" =>
            /\ updating'
            /\ (\E k \in DOMAIN calls' : calls'[k][1] = "loadGroup")
               \/ UNCHANGED <<registry, displays, nextId>>
            /\ UNCHANGED <<selection, enabled, files>>]_vars

\* C12 witness: with a display in the group, Load Group was given a path
\* that does not exist.
C12_Witness ==
    /\ pc = "done"
    /\ handler = "load"
    /\ locals.filename = <<"g", ".rviz">>
    /\ files[<<"g", ".rviz">>] = NoFile
    /\ registry # <<>>
    /\ message = "does not exist!"
\* C13: when Duplicate has ended, also when createDisplay() failed for one of
\* the selected displays, the display group holds a duplicate for every
\* selected display or for none of them.
C13_DuplicateAllOrNone ==
    handler = "duplicate" /\ pc \in {"done", "crashed"} =>
        LET made == {k \in DOMAIN calls :
                        /\ calls[k][1] = "createDisplay"
                        /\ \E j \in DOMAIN registry : registry[j] = calls[k][2]}
        IN  Cardinality(made) \in {0, Len(locals.list)}
\* C14: after Duplicate of a non-empty selection the selection is exactly the
\* displays just created, each once, as the run of rows from the first to the
\* last new display; it holds no source, no other display that existed
\* before, and not the structural row.
C14_DuplicateSelectsCopies ==
    [][pc = "idle" /\ handler' = "duplicate"
         /\ SelectSeq(selection, LAMBDA item : item \in Ids) # <<>> =>
        LET created == {d \in Ids : /\ displays[d].life = "free"
                                    /\ displays'[d].life = "alive"}
        IN  /\ Cardinality(created) =
                  Len(SelectSeq(selection, LAMBDA item : item \in Ids))
            /\ {selection'[k] : k \in DOMAIN selection'} = created
            /\ Len(selection') = Cardinality(created)
            /\ selection' = SubSeq(registry', Len(registry) + 1, Len(registry'))
            /\ \A k \in DOMAIN selection' :
                /\ selection'[k] # StructRow
                /\ \A j \in DOMAIN registry : registry[j] # selection'[k]
                /\ \A j \in DOMAIN selection : selection[j] # selection'[k]]_vars

\* C14 witness: the second and then the first display of the group were
\* selected and duplicated; the two copies are the selection.
C14_Witness ==
    /\ pc = "done"
    /\ handler = "duplicate"
    /\ locals.list = <<2, 1>>
    /\ registry = <<1, 2, 3, 4>>
    /\ selection = <<3, 4>>
\* C15: Duplicate, Delete, Rename and Save Group with no display selected
\* change neither the display group, the selection nor whether the update
\* loop runs, and call neither notifyConfigChanged() nor startUpdate().
C15_NoDisplaySelectedNoOp ==
    /\ [](handler \in {"duplicate", "delete", "rename", "save"}
          /\ pc = "done" /\ locals.list = <<>> =>
            \A k \in DOMAIN calls :
                calls[k][1] \notin {"notifyConfigChanged", "startUpdate"})
    /\ [][handler' \in {"duplicate", "delete", "rename", "save"}
          /\ SelectSeq(selection, LAMBDA item : item \in Ids) = <<>> =>
            UNCHANGED <<registry, selection, updating>>]_vars
\* C16: Delete calls notifyConfigChanged() exactly once, and when it has
\* called it no display that this Delete deleted is in the display group.
C16_NotifyAfterRemoval ==
    handler = "delete" =>
        LET notified == {k \in DOMAIN calls : calls[k][1] = "notifyConfigChanged"}
        IN  /\ pc = "done" => Cardinality(notified) = 1
            /\ notified # {} =>
                   \A j \in DOMAIN locals.list, r \in DOMAIN registry :
                       registry[r] # locals.list[j]
\* C17: an accepted Add creates exactly one display, of the class and name
\* the dialog handed back, as the last of the display group, between
\* stopUpdate() and startUpdate(); setTopic() is called on it, and its topic
\* set, exactly when the dialog's topic and datatype are both non-empty; no
\* other display changes.
C17_AddCreatesOneDisplay ==
    [][pc = "add_exec" /\ locals'.result = "Accepted" =>
        LET c == locals'.choice
            new == registry'[Len(registry')]
            both == c.topic # "" /\ c.datatype # ""
        IN  /\ ~updating
            /\ registry' = Append(registry, new)
            /\ displays[new].life = "free"
            /\ displays'[new] =
                 [classId |-> c.lookup_name, name |-> c.display_name,
                  topic |-> IF both THEN c.topic ELSE "",
                  life |-> "alive", connected |-> TRUE]
            /\ \A d \in Ids : d # new => displays'[d] = displays[d]
            /\ calls' = << <<"stopUpdate", 0>>, <<"createDisplay", new>> >>
                        \o (IF both THEN << <<"setTopic", new>> >> ELSE <<>>)
                        \o << <<"startUpdate", 0>> >>]_vars

\* C17 witness: Add was accepted with a topic but no datatype; the second
\* display of the group was created without a topic.
C17_Witness ==
    /\ pc = "done"
    /\ handler = "add"
    /\ locals.result = "Accepted"
    /\ locals.choice.topic = "/t"
    /\ locals.choice.datatype = ""
    /\ Len(registry) = 2
    /\ displays[registry[2]].topic = ""
    /\ displays[registry[2]].name = locals.choice.display_name
\* C18: Save Group calls the writer at most once, and only with exactly one
\* display selected and a non-empty file name chosen; the path written is the
\* chosen name when that ends with the extension ".rviz" and the chosen name
\* with ".rviz" appended otherwise, so it always ends with ".rviz"; the
\* writer's message is shown exactly when the writer reports an error; only
\* the file of that path can change, to the selected display's config; the
\* display group and the selection never change.
C18_SaveGroupWrites ==
    /\ [](pc = "done" /\ handler = "save" =>
            LET writes == {k \in DOMAIN calls : calls[k][1] = "writeFile"}
                chosen == locals.filename
            IN  /\ Cardinality(writes) <= 1
                /\ writes # {} =>
                       /\ Len(SelectSeq(selection, LAMBDA item : item \in Ids)) = 1
                       /\ chosen # <<>>
                /\ \A k \in writes :
                       LET path == calls[k][2]
                       IN  /\ Len(path) > 1
                           /\ path[Len(path)] = ".rviz"
                           /\ path = IF Len(chosen) > 1
                                        /\ chosen[Len(chosen)] = ".rviz"
                                     THEN chosen
                                     ELSE chosen \o <<".rviz">>
                /\ message # "" <=> outcome = "write_error"
                /\ message \in {"", "write failed"}
                /\ outcome = "write_error" => writes # {})
    /\ [][handler' = "save" =>
            /\ UNCHANGED <<registry, selection>>
            /\ files' # files =>
                   /\ outcome' = "saved"
                   /\ \E k \in DOMAIN calls' :
                       /\ calls'[k][1] = "writeFile"
                       /\ files'[calls'[k][2]] =
                            [Class |-> displays[locals.display].classId,
                             Name |-> displays[locals.display].name,
                             Topic |-> displays[locals.display].topic]
                       /\ \A p \in DOMAIN files :
                            p # calls'[k][2] => files'[p] = files[p]]_vars

\* C18 witness: a group was saved under a name with another extension, and
\* the file with ".rviz" appended holds it.
C18_Witness ==
    /\ pc = "done"
    /\ handler = "save"
    /\ outcome = "saved"
    /\ locals.filename = <<"g", ".txt">>
    /\ displays[locals.display].classId = GroupClassId
    /\ files[<<"g", ".txt", ".rviz">>] # NoFile
    /\ files[<<"g", ".rviz">>] = NoFile
\* C19: in every state the flags agree with each other: duplicate is enabled
\* exactly when remove is, rename only when remove is, save group only when
\* rename is, and load group always.
C19_FlagsConsistent ==
    /\ enabled.duplicate_button_ <=> enabled.remove_button_
    /\ enabled.rename_button_ => enabled.remove_button_
    /\ enabled.save_group_button_ => enabled.rename_button_
    /\ enabled.load_group_button_

\* C19 witness: the selection changed to one group among several displays,
\* and all five flags are set.
C19_Witness ==
    /\ pc = "idle"
    /\ Len(registry) >= 2
    /\ Len(selection) = 1
    /\ selection[1] \in Ids
    /\ displays[selection[1]].classId = GroupClassId
    /\ enabled.save_group_button_
    /\ enabled.rename_button_
    /\ enabled.remove_button_
    /\ enabled.duplicate_button_
    /\ enabled.load_group_button_
\* C20: Delete works on the displays that were selected when it started, in
\* the selection's order: that list is fixed for the whole slot, holds each
\* display once, and when the slot is done it has called disconnect() and
\* then deleteLater() once for each display of the list, in the list's
\* order, and then notifyConfigChanged(); no step disconnects a display or
\* schedules its destruction unless Delete runs and the display is in the
\* list.
C20_DeleteExactlySelected ==
    /\ [](handler = "delete" /\ pc = "done" =>
            /\ \A j, k \in DOMAIN locals.list :
                   j # k => locals.list[j] # locals.list[k]
            /\ calls = [k \in 1..(2 * Len(locals.list)) |->
                           IF k % 2 = 1
                           THEN <<"disconnect", locals.list[(k + 1) \div 2]>>
                           ELSE <<"deleteLater", locals.list[k \div 2]>>]
                       \o << <<"notifyConfigChanged", 0>> >>)
    /\ [][pc = "idle" /\ handler' = "delete" =>
            locals'.list = SelectSeq(selection, LAMBDA item : item \in Ids)]_vars
    /\ [][handler = "delete" /\ pc # "done" =>
            locals'.list = locals.list]_vars
    /\ [][\A d \in Ids :
            \/ displays[d].connected /\ ~displays'[d].connected
            \/ displays[d].life # "doomed" /\ displays'[d].life = "doomed"
            => /\ handler = "delete"
               /\ \E k \in DOMAIN locals.list : locals.list[k] = d]_vars

\* C20 witness: of three displays the second and then the first were
\* selected and deleted; the third is still alive and connected.
C20_Witness ==
    /\ pc = "done"
    /\ handler = "delete"
    /\ locals.list = <<2, 1>>
    /\ registry = <<1, 2, 3>>
    /\ displays[1].life = "doomed"
    /\ displays[2].life = "doomed"
    /\ displays[3].life = "alive"
    /\ displays[3].connected
====
